---- MODULE Spec2Model ----
(***************************************************************************)
(* Model of advanced-vector/vector.h: RawMemory<T> (a raw block and its    *)
(* capacity) and Vector<T> (a RawMemory and the number of constructed      *)
(* elements).  A block is a sequence of slots; a slot is raw memory or a   *)
(* constructed T.  Every public operation of Vector is one action; the     *)
(* exception an allocation or an element operation may throw is an input   *)
(* of the action (fault), and the action computes the state the unwinding  *)
(* leaves behind.                                                          *)
(*                                                                         *)
(* Addresses are named per call: while a call runs, block OwnBlock(v) is   *)
(* the block container v owned when the call began and NewBlock is the     *)
(* block the call allocates.  last.buf[v] keeps, under these names, the    *)
(* block v owns when the call ends.                                        *)
(***************************************************************************)
EXTENDS Integers, Sequences, FiniteSets, TLC

\* ---- bounds ----
MaxCap == 4          \* largest capacity a block is ever given
MaxVal == 1          \* element values are 0 (the value of T()) and 1..MaxVal
MaxPair == 2         \* largest capacity while two containers exist

\* ---- program constants ----
Null == 0            \* nullptr: the buffer_ of an empty RawMemory

\* ---- slots ----
Raw == -2            \* memory holding no object
MovedFrom == -1      \* a T that has been moved from
Default == 0         \* the value of T()
Vals == 0..MaxVal
Objs == Vals \cup {MovedFrom}

Vecs == {"a", "b"}
OwnBlock(v) == IF v = "a" THEN 1 ELSE 2
Blocks == 1..(Cardinality(Vecs) + 1)
\* A fault is what goes wrong in a call: 0 nothing, OOM operator new
\* throws, k > 0 the k-th element operation that can throw does.
OOM == 0 - 1

\* The element type T, by the traits the code asks about or that decide
\* which of its operations can throw.
\* The instantiations explored are the four combinations of the two traits
\* the code tests, with move assignment noexcept exactly when move
\* construction is.
ElemTypes ==
    {[nothrowMove |-> nm, copyable |-> cp, nothrowMoveAssign |-> nm] :
        nm \in BOOLEAN, cp \in BOOLEAN}

VARIABLES
    T,        \* the element type of the instantiation
    vec,      \* vec[v]: data_ (buffer_, capacity_), size_ and the slots of the block of container v
    last,     \* the operation that ran last, its outcome and what it did to elements
    ub,       \* an operation touched a destroyed element: behaviour is undefined
    run       \* run[v]: the PushBack calls made on v since Vector(), while nothing else was called on it

vars == <<T, vec, last, ub, run>>

\* a container while a call runs: its slots are in the call's heap
NoVec == [alive |-> FALSE, buf |-> Null, cap |-> 0, size |-> 0]
EmptyVec == [alive |-> TRUE, buf |-> Null, cap |-> 0, size |-> 0]
\* a container between calls
NoVecAtRest == [alive |-> FALSE, buf |-> Null, cap |-> 0, size |-> 0, data |-> <<>>]

NoStats ==
    [ctor |-> 0, copy |-> 0, move |-> 0, cassign |-> 0, massign |-> 0,
     dtor |-> 0, leak |-> 0, alloc |-> 0, dealloc |-> 0]

NoCall ==
    [op |-> "-", v |-> "a", o |-> "a", n |-> 0, x |-> Raw, own |-> FALSE, res |-> "ok",
     at |-> <<Null, 0>>, st |-> NoStats,
     buf |-> [v \in Vecs |-> Null], ret |-> <<Null, 0>>]

\* a container that is not in a run of PushBack calls, and one just default-constructed
NoRun == [on |-> FALSE, pushes |-> 0, reallocs |-> 0]
NewRun == [on |-> TRUE, pushes |-> 0, reallocs |-> 0]

\* ---- reading the state ----
Slot(h, b, i) == h[b][i + 1]                       \* buffer_[i]

Min(x, y) == IF x < y THEN x ELSE y

\* the slots [0, size) of container v as operator[] reads them
Elems(v) ==
    [i \in 1..vec[v].size |-> IF i <= Len(vec[v].data) THEN vec[v].data[i] ELSE Raw]

\* every slot in [0, size) holds an object (what every member function assumes)
Live(v) ==
    /\ vec[v].alive
    /\ vec[v].size <= vec[v].cap
    /\ \A i \in 1..vec[v].size : Elems(v)[i] # Raw

CountObjs(s) == Cardinality({i \in 1..Len(s) : s[i] # Raw})

FreeBlocks(h) == {b \in Blocks : h[b] = <<>>}

\* which element operations of T can throw
CanThrow(kind) ==
    CASE kind = "move" -> ~T.nothrowMove
      [] kind = "massign" -> ~T.nothrowMoveAssign
      [] OTHER -> TRUE

\* the transfer rule of Reserve, PushBack and Emplace
MoveRule == T.nothrowMove \/ ~T.copyable

Bump(st, f) == [st EXCEPT ![f] = @ + 1]

\* ---- the running operation: m = [heap, vec, n, fault, res, at, st, ret] ----
\* n counts the throwing-capable element operations started so far; res
\* is "ok" until something throws ("alloc": operator new, "elem": an
\* element operation, then at = <<block, index>> is the slot it was
\* constructing or assigning, <<Null, 0>> for an object outside the blocks).
\* ret is the iterator the call returns, as <<block, index>>.
Start(fault) ==
    [heap |-> [b \in Blocks |->
                 IF \E v \in Vecs : vec[v].buf = b
                 THEN vec[CHOOSE v \in Vecs : vec[v].buf = b].data
                 ELSE <<>>],
     vec |-> [v \in Vecs |-> [alive |-> vec[v].alive, buf |-> vec[v].buf,
                              cap |-> vec[v].cap, size |-> vec[v].size]],
     n |-> 0, fault |-> fault, res |-> "ok", at |-> <<Null, 0>>, st |-> NoStats,
     ret |-> <<Null, 0>>]

Ok(m) == m.res = "ok"

\* the faults a call can meet, from its run m0 without a fault
FaultsIn(m0) ==
    {0} \cup 1..m0.n \cup (IF m0.st.alloc > 0 THEN {OOM} ELSE {})

\* ---- RawMemory ----
\* the address operator new returns: not that of a block a container
\* owned when the call began
NewBlock(h) == CHOOSE b \in FreeBlocks(h) : \A v \in Vecs : b # OwnBlock(v)

\* RawMemory::Allocate(n): a block of n raw slots, nullptr for n = 0;
\* operator new may throw.  The new block is NewBlock(m.heap) of the caller.
Allocate(m, n) ==
    IF ~Ok(m) \/ n = 0 THEN m
    ELSE IF m.fault = OOM THEN [m EXCEPT !.res = "alloc"]
    ELSE [m EXCEPT !.heap[NewBlock(m.heap)] = [i \in 1..n |-> Raw],
                   !.st = Bump(@, "alloc")]

AllocatedAt(m, n) == IF n = 0 THEN Null ELSE NewBlock(m.heap)

\* RawMemory::Deallocate(buf) as ~RawMemory runs it: the block goes back to
\* the allocator whatever its slots hold; objects still in it are never destroyed.
Deallocate(m, b) ==
    IF b = Null THEN m
    ELSE [m EXCEPT !.st = [@ EXCEPT !.dealloc = @ + 1,
                                    !.leak = @ + CountObjs(m.heap[b])],
                   !.heap[b] = <<>>]

\* ---- element operations ----
StatOf(kind) == IF kind \in {"value", "args"} THEN "ctor" ELSE kind

\* new (b + i) T(...): kind is "value" (T()), "args" (T(args...)), "copy" or "move"
Construct(m, b, i, kind, val) ==
    IF ~Ok(m) THEN m
    ELSE IF CanThrow(kind) /\ m.n + 1 = m.fault
         THEN [m EXCEPT !.n = @ + 1, !.res = "elem", !.at = <<b, i>>]
    ELSE [m EXCEPT !.n = IF CanThrow(kind) THEN @ + 1 ELSE @,
                   !.heap[b][i + 1] = val,
                   !.st = [Bump(@, StatOf(kind)) EXCEPT
                             !.leak = @ + (IF m.heap[b][i + 1] # Raw THEN 1 ELSE 0)]]

\* new (b + i) T(std::move(sb[si])): the source is left moved-from
MoveConstruct(m, b, i, sb, si) ==
    LET m1 == Construct(m, b, i, "move", Slot(m.heap, sb, si))
    IN IF Ok(m) /\ Ok(m1) THEN [m1 EXCEPT !.heap[sb][si + 1] = MovedFrom] ELSE m1

\* b[i] = val: kind is "cassign" or "massign"
Assign(m, b, i, kind, val) ==
    IF ~Ok(m) THEN m
    ELSE IF CanThrow(kind) /\ m.n + 1 = m.fault
         THEN [m EXCEPT !.n = @ + 1, !.res = "elem", !.at = <<b, i>>]
    ELSE [m EXCEPT !.n = IF CanThrow(kind) THEN @ + 1 ELSE @,
                   !.heap[b][i + 1] = val,
                   !.st = Bump(@, kind)]

\* b[i] = std::move(sb[si])
MoveAssignFrom(m, b, i, sb, si) ==
    LET m1 == Assign(m, b, i, "massign", Slot(m.heap, sb, si))
    IN IF Ok(m) /\ Ok(m1) THEN [m1 EXCEPT !.heap[sb][si + 1] = MovedFrom] ELSE m1

\* std::destroy_n(b + off, n); destructors do not throw and run during unwinding too
DestroyN(m, b, off, n) ==
    IF n = 0 \/ b = Null THEN m
    ELSE [m EXCEPT !.heap[b] = [j \in 1..Len(@) |->
                                   IF j - 1 \in off..(off + n - 1) THEN Raw ELSE @[j]],
                   !.st = [@ EXCEPT !.dtor = @ + n]]

\* std::uninitialized_copy_n / uninitialized_move_n / uninitialized_value_construct_n:
\* constructs db[do + i] for i in [0, n) in order; when one construction
\* throws, the elements this call constructed are destroyed before the
\* exception leaves it.
RECURSIVE UninitN(_, _, _, _, _, _, _, _)
UninitN(m, kind, sb, so, db, do, n, i) ==
    IF i >= n \/ ~Ok(m) THEN m
    ELSE LET m1 == CASE kind = "move" -> MoveConstruct(m, db, do + i, sb, so + i)
                     [] kind = "copy" -> Construct(m, db, do + i, "copy", Slot(m.heap, sb, so + i))
                     [] OTHER -> Construct(m, db, do + i, "value", Default)
         IN IF Ok(m1) THEN UninitN(m1, kind, sb, so, db, do, n, i + 1)
            ELSE DestroyN(m1, db, do, i)

\* std::copy(sb + so, sb + so + n, db + do): copy assignment, first to last
RECURSIVE CopyN(_, _, _, _, _, _, _)
CopyN(m, sb, so, db, do, n, i) ==
    IF i >= n \/ ~Ok(m) THEN m
    ELSE CopyN(Assign(m, db, do + i, "cassign", Slot(m.heap, sb, so + i)),
               sb, so, db, do, n, i + 1)

\* std::move(b + first, b + lst, b + first - 1): move assignment one slot left, first to last
RECURSIVE MoveLeft(_, _, _, _)
MoveLeft(m, b, first, lst) ==
    IF first >= lst \/ ~Ok(m) THEN m
    ELSE MoveLeft(MoveAssignFrom(m, b, first - 1, b, first), b, first + 1, lst)

\* std::move_backward(b + first, b + lst, b + lst + 1): move assignment one slot right, last to first
RECURSIVE MoveRight(_, _, _, _)
MoveRight(m, b, first, lst) ==
    IF first >= lst \/ ~Ok(m) THEN m
    ELSE MoveRight(MoveAssignFrom(m, b, lst, b, lst - 1), b, first, lst - 1)

\* RawMemory::Swap on the data_ of v with the local RawMemory (nb, ncap)
SetData(m, v, nb, ncap) == [m EXCEPT !.vec[v].buf = nb, !.vec[v].cap = ncap]
SetSize(m, v, n) == [m EXCEPT !.vec[v].size = n]
\* return begin() + offset
ReturnAt(m, v, offset) ==
    IF Ok(m) THEN [m EXCEPT !.ret = <<m.vec[v].buf, offset>>] ELSE m

\* ---- Vector: constructors and destructor ----
\* Vector(size_t size), were data_ built with one slot to spare
VectorSized_SpareRoom(m, v, size) ==
    LET nb == AllocatedAt(m, size + 1)
        m1 == Allocate(m, size + 1)
        m2 == UninitN(m1, "value", Null, 0, nb, 0, size, 0)
    IN IF ~Ok(m1) THEN m1
       ELSE IF ~Ok(m2) THEN Deallocate(m2, nb)
       ELSE [m2 EXCEPT !.vec[v] = [alive |-> TRUE, buf |-> nb, cap |-> size + 1, size |-> size]]

\* explicit Vector(size_t size)
VectorSized(m, v, size) ==
    LET nb == AllocatedAt(m, size)
        m1 == Allocate(m, size)
        m2 == UninitN(m1, "value", Null, 0, nb, 0, size, 0)
    IN IF ~Ok(m1) THEN m1
       ELSE IF ~Ok(m2) THEN Deallocate(m2, nb)          \* ~RawMemory of data_
       ELSE [m2 EXCEPT !.vec[v] = [alive |-> TRUE, buf |-> nb, cap |-> size, size |-> size]]

\* Vector(const Vector& other), were data_ built with other's capacity
VectorCopy_Capacity(m, v, other) ==
    LET r  == m.vec[other]
        nb == AllocatedAt(m, r.cap)
        m1 == Allocate(m, r.cap)
        m2 == UninitN(m1, "copy", r.buf, 0, nb, 0, r.size, 0)
    IN IF ~Ok(m1) THEN m1
       ELSE IF ~Ok(m2) THEN Deallocate(m2, nb)
       ELSE [m2 EXCEPT !.vec[v] = [alive |-> TRUE, buf |-> nb, cap |-> r.cap, size |-> r.size]]

\* Vector(const Vector& other)
VectorCopy(m, v, other) ==
    LET r  == m.vec[other]
        nb == AllocatedAt(m, r.size)
        m1 == Allocate(m, r.size)
        m2 == UninitN(m1, "copy", r.buf, 0, nb, 0, r.size, 0)
    IN IF ~Ok(m1) THEN m1
       ELSE IF ~Ok(m2) THEN Deallocate(m2, nb)
       ELSE [m2 EXCEPT !.vec[v] = [alive |-> TRUE, buf |-> nb, cap |-> r.size, size |-> r.size]]

\* Vector(Vector&& other), were it to copy other instead of taking its block
VectorMove_Copy(m, v, other) == VectorCopy(m, v, other)

\* Vector(Vector&& other) noexcept: default members, then the two swaps
VectorMove(m, v, other) ==
    [m EXCEPT !.vec[v] = m.vec[other], !.vec[other] = EmptyVec]

\* ~Vector(), then ~RawMemory() of data_
VectorDtor(m, v) ==
    LET d == m.vec[v]
    IN [Deallocate(DestroyN(m, d.buf, 0, d.size), d.buf) EXCEPT !.vec[v] = NoVec]

\* ---- Vector: Swap and the assignments ----
\* void Swap(Vector& other) noexcept
SwapOp(m, v, other) ==
    IF v = other THEN m
    ELSE [m EXCEPT !.vec[v] = m.vec[other], !.vec[other] = m.vec[v]]

\* operator=(const Vector& rhs), were it to copy and swap whatever the capacity
CopyAssignOp_AlwaysSwap(m, v, rhs) ==
    LET d == m.vec[v]
        r == m.vec[rhs]
    IN IF v = rhs THEN m
       ELSE IF TRUE
       THEN \* Vector rhs_copy(rhs); Swap(rhs_copy); ~rhs_copy
            LET nb == AllocatedAt(m, r.size)
                m1 == Allocate(m, r.size)
                m2 == UninitN(m1, "copy", r.buf, 0, nb, 0, r.size, 0)
                m3 == SetSize(SetData(m2, v, nb, r.size), v, r.size)
            IN IF ~Ok(m1) THEN m1
               ELSE IF ~Ok(m2) THEN Deallocate(m2, nb)
               ELSE Deallocate(DestroyN(m3, d.buf, 0, d.size), d.buf)
       ELSE LET m1 == IF d.size > r.size
                      THEN DestroyN(m, d.buf, r.size, d.size - r.size)
                      ELSE m
            IN IF r.size = 0 THEN SetSize(m1, v, r.size)
               ELSE LET m2 == IF d.size >= r.size
                              THEN CopyN(m1, r.buf, 0, d.buf, 0, r.size, 0)
                              ELSE UninitN(CopyN(m1, r.buf, 0, d.buf, 0, d.size, 0),
                                           "copy", r.buf, d.size, d.buf, d.size,
                                           r.size - d.size, 0)
                    IN IF Ok(m2) THEN SetSize(m2, v, r.size) ELSE m2

\* operator=(const Vector& rhs), were the block of rhs_copy not released when a copy throws
CopyAssignOp_NoRelease(m, v, rhs) ==
    LET d == m.vec[v]
        r == m.vec[rhs]
    IN IF v = rhs THEN m
       ELSE IF r.size > d.cap
       THEN \* Vector rhs_copy(rhs); Swap(rhs_copy); ~rhs_copy
            LET nb == AllocatedAt(m, r.size)
                m1 == Allocate(m, r.size)
                m2 == UninitN(m1, "copy", r.buf, 0, nb, 0, r.size, 0)
                m3 == SetSize(SetData(m2, v, nb, r.size), v, r.size)
            IN IF ~Ok(m1) THEN m1
               ELSE IF ~Ok(m2) THEN m2
               ELSE Deallocate(DestroyN(m3, d.buf, 0, d.size), d.buf)
       ELSE LET m1 == IF d.size > r.size
                      THEN DestroyN(m, d.buf, r.size, d.size - r.size)
                      ELSE m
            IN IF r.size = 0 THEN SetSize(m1, v, r.size)
               ELSE LET m2 == IF d.size >= r.size
                              THEN CopyN(m1, r.buf, 0, d.buf, 0, r.size, 0)
                              ELSE UninitN(CopyN(m1, r.buf, 0, d.buf, 0, d.size, 0),
                                           "copy", r.buf, d.size, d.buf, d.size,
                                           r.size - d.size, 0)
                    IN IF Ok(m2) THEN SetSize(m2, v, r.size) ELSE m2

\* Vector& operator=(const Vector& rhs)
CopyAssignOp(m, v, rhs) ==
    LET d == m.vec[v]
        r == m.vec[rhs]
    IN IF v = rhs THEN m
       ELSE IF r.size > d.cap
       THEN \* Vector rhs_copy(rhs); Swap(rhs_copy); ~rhs_copy
            LET nb == AllocatedAt(m, r.size)
                m1 == Allocate(m, r.size)
                m2 == UninitN(m1, "copy", r.buf, 0, nb, 0, r.size, 0)
                m3 == SetSize(SetData(m2, v, nb, r.size), v, r.size)
            IN IF ~Ok(m1) THEN m1
               ELSE IF ~Ok(m2) THEN Deallocate(m2, nb)
               ELSE Deallocate(DestroyN(m3, d.buf, 0, d.size), d.buf)
       ELSE LET m1 == IF d.size > r.size
                      THEN DestroyN(m, d.buf, r.size, d.size - r.size)
                      ELSE m
            IN IF r.size = 0 THEN SetSize(m1, v, r.size)
               ELSE LET m2 == IF d.size >= r.size
                              THEN CopyN(m1, r.buf, 0, d.buf, 0, r.size, 0)
                              ELSE UninitN(CopyN(m1, r.buf, 0, d.buf, 0, d.size, 0),
                                           "copy", r.buf, d.size, d.buf, d.size,
                                           r.size - d.size, 0)
                    IN IF Ok(m2) THEN SetSize(m2, v, r.size) ELSE m2

\* operator=(Vector&& rhs), were it to copy rhs
MoveAssignOp_Copy(m, v, rhs) == CopyAssignOp(m, v, rhs)

\* Vector& operator=(Vector&& rhs) noexcept
MoveAssignOp(m, v, rhs) == IF v # rhs THEN SwapOp(m, v, rhs) ELSE m

\* ---- Vector: capacity ----
\* the transfer, were elements moved only when the move constructor cannot throw
TransferKind_NothrowOnly == IF T.nothrowMove THEN "move" ELSE "copy"

\* the constructor that transfers an element to a new block
TransferKind == IF MoveRule THEN "move" ELSE "copy"

\* Reserve, were it to return early only for new_capacity < Capacity()
ReserveOp_Strict(m, v, new_capacity) ==
    LET d == m.vec[v]
    IN IF new_capacity < d.cap THEN m
       ELSE LET nb == AllocatedAt(m, new_capacity)
                m1 == Allocate(m, new_capacity)
                m2 == UninitN(m1, TransferKind, d.buf, 0, nb, 0, d.size, 0)
                m3 == DestroyN(m2, d.buf, 0, d.size)
            IN IF ~Ok(m1) THEN m1
               ELSE IF ~Ok(m2) THEN Deallocate(m2, nb)
               ELSE Deallocate(SetData(m3, v, nb, new_capacity), d.buf)

\* void Reserve(size_t new_capacity)
ReserveOp(m, v, new_capacity) ==
    LET d == m.vec[v]
    IN IF new_capacity <= d.cap THEN m
       ELSE LET nb == AllocatedAt(m, new_capacity)
                m1 == Allocate(m, new_capacity)
                m2 == UninitN(m1, TransferKind, d.buf, 0, nb, 0, d.size, 0)
                m3 == DestroyN(m2, d.buf, 0, d.size)
            IN IF ~Ok(m1) THEN m1
               ELSE IF ~Ok(m2) THEN Deallocate(m2, nb)
               ELSE Deallocate(SetData(m3, v, nb, new_capacity), d.buf)

\* Resize, were it to grow the block by doubling as PushBack does
ResizeOp_Doubling(m, v, new_size) ==
    LET d == m.vec[v]
    IN IF new_size < d.size
       THEN SetSize(DestroyN(m, d.buf, new_size, d.size - new_size), v, new_size)
       ELSE IF new_size > d.size
       THEN LET m1 == ReserveOp(m, v, IF new_size > d.cap /\ d.cap * 2 > new_size
                                      THEN d.cap * 2 ELSE new_size)
                m2 == UninitN(m1, "value", Null, 0, m1.vec[v].buf, d.size,
                              new_size - d.size, 0)
            IN IF Ok(m2) THEN SetSize(m2, v, new_size) ELSE m2
       ELSE SetSize(m, v, new_size)

\* Resize, were it to fill the room it has before it reserves more
ResizeOp_FillFirst(m, v, new_size) ==
    LET d == m.vec[v]
    IN IF new_size < d.size
       THEN SetSize(DestroyN(m, d.buf, new_size, d.size - new_size), v, new_size)
       ELSE IF new_size > d.size
       THEN LET m0 == IF d.size < d.cap
                      THEN UninitN(m, "value", Null, 0, d.buf, d.size,
                                   Min(new_size, d.cap) - d.size, 0)
                      ELSE m
                sz == IF Ok(m0) THEN Min(new_size, d.cap) ELSE d.size
                m1 == ReserveOp(SetSize(m0, v, sz), v, new_size)
                m2 == UninitN(m1, "value", Null, 0, m1.vec[v].buf, sz,
                              new_size - sz, 0)
            IN IF Ok(m2) THEN SetSize(m2, v, new_size) ELSE m2
       ELSE SetSize(m, v, new_size)

\* void Resize(size_t new_size)
ResizeOp(m, v, new_size) ==
    LET d == m.vec[v]
    IN IF new_size < d.size
       THEN SetSize(DestroyN(m, d.buf, new_size, d.size - new_size), v, new_size)
       ELSE IF new_size > d.size
       THEN LET m1 == ReserveOp(m, v, new_size)
                m2 == UninitN(m1, "value", Null, 0, m1.vec[v].buf, d.size,
                              new_size - d.size, 0)
            IN IF Ok(m2) THEN SetSize(m2, v, new_size) ELSE m2
       ELSE SetSize(m, v, new_size)

\* ---- Vector: adding and removing elements ----
\* The value an argument denotes when the constructor reads it: a value of
\* the caller (own = FALSE) or a reference to element x of this container,
\* taken before the call (own = TRUE), which still points into the block
\* the container had then.
ArgVal(h, b, arg) == IF arg.own THEN Slot(h, b, arg.x) ELSE arg.x

\* PushBack, were a full block to grow by one slot
PushBackOp_PlusOne(m, v, kind, arg) ==
    LET d  == m.vec[v]
        sz == d.size
    IN IF sz = d.cap
       THEN LET new_capacity == sz + 1
                nb == AllocatedAt(m, new_capacity)
                m1 == Allocate(m, new_capacity)
                m2 == UninitN(m1, TransferKind, d.buf, 0, nb, 0, sz, 0)
                m3 == Construct(m2, nb, sz, kind, ArgVal(m2.heap, d.buf, arg))
                m4 == DestroyN(m3, d.buf, 0, sz)
            IN IF ~Ok(m1) THEN m1
               ELSE IF ~Ok(m3) THEN Deallocate(m3, nb)
               ELSE SetSize(Deallocate(SetData(m4, v, nb, new_capacity), d.buf), v, sz + 1)
       ELSE LET m1 == Construct(m, d.buf, sz, kind, ArgVal(m.heap, d.buf, arg))
            IN IF Ok(m1) THEN SetSize(m1, v, sz + 1) ELSE m1

\* void PushBack(const T& value) with kind = "copy";
\* void PushBack(T&& value) with kind = "move"
PushBackOp(m, v, kind, arg) ==
    LET d  == m.vec[v]
        sz == d.size
    IN IF sz = d.cap
       THEN LET new_capacity == IF sz = 0 THEN 1 ELSE sz * 2
                nb == AllocatedAt(m, new_capacity)
                m1 == Allocate(m, new_capacity)
                m2 == UninitN(m1, TransferKind, d.buf, 0, nb, 0, sz, 0)
                m3 == Construct(m2, nb, sz, kind, ArgVal(m2.heap, d.buf, arg))
                m4 == DestroyN(m3, d.buf, 0, sz)
            IN IF ~Ok(m1) THEN m1
               ELSE IF ~Ok(m3) THEN Deallocate(m3, nb)        \* ~RawMemory of new_data
               ELSE SetSize(Deallocate(SetData(m4, v, nb, new_capacity), d.buf), v, sz + 1)
       ELSE LET m1 == Construct(m, d.buf, sz, kind, ArgVal(m.heap, d.buf, arg))
            IN IF Ok(m1) THEN SetSize(m1, v, sz + 1) ELSE m1

\* void PopBack() noexcept
PopBackOp(m, v) ==
    LET d == m.vec[v]
    IN DestroyN(SetSize(m, v, d.size - 1), d.buf, d.size - 1, 1)

\* std::construct_at of tmp_obj on the local buffer buf: an object outside the heap
ConstructTmp(m, kind) ==
    IF ~Ok(m) THEN m
    ELSE IF CanThrow(kind) /\ m.n + 1 = m.fault
         THEN [m EXCEPT !.n = @ + 1, !.res = "elem"]
    ELSE [m EXCEPT !.n = IF CanThrow(kind) THEN @ + 1 ELSE @,
                   !.st = Bump(@, StatOf(kind))]

\* Emplace, were the full-block branch to transfer the elements before it constructs the new one
EmplaceOp_TransferFirst(m, v, offset, kind, arg) ==
    LET d  == m.vec[v]
        b  == d.buf
        sz == d.size
        r  ==
              IF sz < d.cap
           THEN IF offset = sz
                THEN LET m1 == Construct(m, b, offset, kind, ArgVal(m.heap, b, arg))
                     IN IF Ok(m1) THEN SetSize(m1, v, sz + 1) ELSE m1
                ELSE LET tmp_obj == ArgVal(m.heap, b, arg)
                         m1 == ConstructTmp(m, kind)
                         m2 == MoveConstruct(m1, b, sz, b, sz - 1)
                         m3 == MoveRight(m2, b, offset, sz - 1)
                         m4 == Assign(m3, b, offset, "massign", tmp_obj)
                     IN IF Ok(m4)
                        THEN SetSize([m4 EXCEPT !.st = Bump(@, "dtor")], v, sz + 1)
                        ELSE IF Ok(m1)
                        THEN [m4 EXCEPT !.st = Bump(@, "leak")]   \* tmp_obj is never destroyed
                        ELSE m4
           ELSE LET new_capacity == IF sz = 0 THEN 1 ELSE sz * 2
                    nb == AllocatedAt(m, new_capacity)
                    m1 == Allocate(m, new_capacity)
                    m2 == UninitN(m1, TransferKind, b, 0, nb, 0, offset, 0)
                    m3 == UninitN(m2, TransferKind, b, offset, nb, offset + 1, sz - offset, 0)
                    m4 == Construct(m3, nb, offset, kind, ArgVal(m3.heap, b, arg))
                    m5 == DestroyN(m4, b, 0, sz)
                IN IF ~Ok(m1) THEN m1
                   ELSE IF ~Ok(m4) THEN Deallocate(m4, nb)        \* ~RawMemory of new_data
                   ELSE SetSize(Deallocate(SetData(m5, v, nb, new_capacity), b), v, sz + 1)
    IN ReturnAt(r, v, offset)

\* Emplace, were the elements after pos not moved one slot right
EmplaceOp_NoShift(m, v, offset, kind, arg) ==
    LET d  == m.vec[v]
        b  == d.buf
        sz == d.size
        r  ==
              IF sz < d.cap
           THEN IF offset = sz
                THEN LET m1 == Construct(m, b, offset, kind, ArgVal(m.heap, b, arg))
                     IN IF Ok(m1) THEN SetSize(m1, v, sz + 1) ELSE m1
                ELSE LET tmp_obj == ArgVal(m.heap, b, arg)
                         m1 == ConstructTmp(m, kind)
                         m2 == MoveConstruct(m1, b, sz, b, sz - 1)
                         m3 == m2
                         m4 == Assign(m3, b, offset, "massign", tmp_obj)
                     IN IF Ok(m4)
                        THEN SetSize([m4 EXCEPT !.st = Bump(@, "dtor")], v, sz + 1)
                        ELSE IF Ok(m1)
                        THEN [m4 EXCEPT !.st = Bump(@, "leak")]   \* tmp_obj is never destroyed
                        ELSE m4
           ELSE LET new_capacity == IF sz = 0 THEN 1 ELSE sz * 2
                    nb == AllocatedAt(m, new_capacity)
                    m1 == Allocate(m, new_capacity)
                    m2 == Construct(m1, nb, offset, kind, ArgVal(m1.heap, b, arg))
                    m3 == UninitN(m2, TransferKind, b, 0, nb, 0, offset, 0)
                    m4 == UninitN(m3, TransferKind, b, offset, nb, offset + 1, sz - offset, 0)
                    m5 == DestroyN(m4, b, 0, sz)
                IN IF ~Ok(m1) THEN m1
                   ELSE IF ~Ok(m4) THEN Deallocate(m4, nb)        \* ~RawMemory of new_data
                   ELSE SetSize(Deallocate(SetData(m5, v, nb, new_capacity), b), v, sz + 1)
    IN ReturnAt(r, v, offset)

\* Emplace, were the temporary built after the elements are moved right
EmplaceOp_ShiftFirst(m, v, offset, kind, arg) ==
    LET d  == m.vec[v]
        b  == d.buf
        sz == d.size
        r  ==
              IF sz < d.cap
           THEN IF offset = sz
                THEN LET m1 == Construct(m, b, offset, kind, ArgVal(m.heap, b, arg))
                     IN IF Ok(m1) THEN SetSize(m1, v, sz + 1) ELSE m1
                ELSE LET tmp_obj == ArgVal(m.heap, b, arg)
                         m1 == MoveConstruct(m, b, sz, b, sz - 1)
                         m2 == MoveRight(m1, b, offset, sz - 1)
                         m3 == ConstructTmp(m2, kind)
                         m4 == Assign(m3, b, offset, "massign", tmp_obj)
                     IN IF Ok(m4)
                        THEN SetSize([m4 EXCEPT !.st = Bump(@, "dtor")], v, sz + 1)
                        ELSE IF Ok(m3)
                        THEN [m4 EXCEPT !.st = Bump(@, "leak")]   \* tmp_obj is never destroyed
                        ELSE m4
           ELSE LET new_capacity == IF sz = 0 THEN 1 ELSE sz * 2
                    nb == AllocatedAt(m, new_capacity)
                    m1 == Allocate(m, new_capacity)
                    m2 == Construct(m1, nb, offset, kind, ArgVal(m1.heap, b, arg))
                    m3 == UninitN(m2, TransferKind, b, 0, nb, 0, offset, 0)
                    m4 == UninitN(m3, TransferKind, b, offset, nb, offset + 1, sz - offset, 0)
                    m5 == DestroyN(m4, b, 0, sz)
                IN IF ~Ok(m1) THEN m1
                   ELSE IF ~Ok(m4) THEN Deallocate(m4, nb)        \* ~RawMemory of new_data
                   ELSE SetSize(Deallocate(SetData(m5, v, nb, new_capacity), b), v, sz + 1)
    IN ReturnAt(r, v, offset)

\* iterator Emplace(const_iterator pos, Args&&... args) with offset = pos - begin();
\* kind says which constructor T(args...) is: "args", "copy" (Insert(pos, const T&))
\* or "move" (Insert(pos, T&&)).  The iterator returned is begin() + offset.
EmplaceOp(m, v, offset, kind, arg) ==
    LET d  == m.vec[v]
        b  == d.buf
        sz == d.size
        r  ==
              IF sz < d.cap
           THEN IF offset = sz
                THEN LET m1 == Construct(m, b, offset, kind, ArgVal(m.heap, b, arg))
                     IN IF Ok(m1) THEN SetSize(m1, v, sz + 1) ELSE m1
                ELSE LET tmp_obj == ArgVal(m.heap, b, arg)
                         m1 == ConstructTmp(m, kind)
                         m2 == MoveConstruct(m1, b, sz, b, sz - 1)
                         m3 == MoveRight(m2, b, offset, sz - 1)
                         m4 == Assign(m3, b, offset, "massign", tmp_obj)
                     IN IF Ok(m4)
                        THEN SetSize([m4 EXCEPT !.st = Bump(@, "dtor")], v, sz + 1)
                        ELSE IF Ok(m1)
                        THEN [m4 EXCEPT !.st = Bump(@, "leak")]   \* tmp_obj is never destroyed
                        ELSE m4
           ELSE LET new_capacity == IF sz = 0 THEN 1 ELSE sz * 2
                    nb == AllocatedAt(m, new_capacity)
                    m1 == Allocate(m, new_capacity)
                    m2 == Construct(m1, nb, offset, kind, ArgVal(m1.heap, b, arg))
                    m3 == UninitN(m2, TransferKind, b, 0, nb, 0, offset, 0)
                    m4 == UninitN(m3, TransferKind, b, offset, nb, offset + 1, sz - offset, 0)
                    m5 == DestroyN(m4, b, 0, sz)
                IN IF ~Ok(m1) THEN m1
                   ELSE IF ~Ok(m4) THEN Deallocate(m4, nb)        \* ~RawMemory of new_data
                   ELSE SetSize(Deallocate(SetData(m5, v, nb, new_capacity), b), v, sz + 1)
    IN ReturnAt(r, v, offset)

\* Erase, were the elements after pos not moved one slot left
EraseOp_NoShift(m, v, offset) ==
    LET d  == m.vec[v]
        m1 == m
    IN IF Ok(m1)
       THEN ReturnAt(SetSize(DestroyN(m1, d.buf, d.size - 1, 1), v, d.size - 1), v, offset)
       ELSE m1

\* iterator Erase(const_iterator pos) with offset = pos - begin()
EraseOp(m, v, offset) ==
    LET d  == m.vec[v]
        m1 == MoveLeft(m, d.buf, offset + 1, d.size)
    IN IF Ok(m1)
       THEN ReturnAt(SetSize(DestroyN(m1, d.buf, d.size - 1, 1), v, d.size - 1), v, offset)
       ELSE m1

\* ---- the actions: one call of a public member function each ----
ExtArgs == [own : {FALSE}, x : Vals]
OwnArgs(v) == [own : {TRUE}, x : 0..(vec[v].size - 1)]
NoArg == [own |-> FALSE, x |-> Raw]

\* the capacity PushBack and Emplace ask for when the block is full (bounded by MaxCap)
Grown(v) == IF vec[v].size = 0 THEN 1 ELSE vec[v].size * 2

\* container v may be given a block of n slots within the bounds
Fits(v, n) ==
    /\ n <= MaxCap
    /\ \A o \in Vecs \ {v} : vec[o].alive => n <= MaxPair /\ vec[o].cap <= MaxPair
HasRoom(v) == vec[v].size < vec[v].cap \/ Fits(v, Grown(v))

\* The run of w after call op on v (with other container o) ended as m:
\* Vector() starts it, a PushBack that returns goes on with it and counts
\* the blocks the call allocated, any other call on w ends it.
RunAfter(m, op, v, o, w) ==
    IF w = v /\ op = "Vector()" THEN NewRun
    ELSE IF w = v /\ op \in {"PushBack(const&)", "PushBack(&&)"} /\ Ok(m) /\ run[w].on
    THEN [on |-> TRUE, pushes |-> run[w].pushes + 1,
          reallocs |-> run[w].reallocs + m.st.alloc]
    ELSE IF w \in {v, o} THEN NoRun
    ELSE run[w]

\* The call returns or throws: the state it leaves becomes the state.  A
\* fault is an input only of the calls it makes fail.
Commit(m, op, v, o, n, arg, fault) ==
    /\ (fault # 0) => ~Ok(m)
    /\ vec' = [w \in Vecs |->
                 [alive |-> m.vec[w].alive,
                  buf |-> IF m.vec[w].buf = Null THEN Null ELSE OwnBlock(w),
                  cap |-> m.vec[w].cap,
                  size |-> m.vec[w].size,
                  data |-> IF m.vec[w].buf = Null THEN <<>> ELSE m.heap[m.vec[w].buf]]]
    /\ last' = [op |-> op, v |-> v, o |-> o, n |-> n,
                x |-> IF arg.own THEN vec[v].data[arg.x + 1] ELSE arg.x,
                own |-> arg.own,
                res |-> m.res, at |-> m.at, st |-> m.st,
                buf |-> [w \in Vecs |-> m.vec[w].buf], ret |-> m.ret]
    /\ run' = [w \in Vecs |-> RunAfter(m, op, v, o, w)]
    /\ UNCHANGED <<T, ub>>

\* no call is running and none is left to be looked at
Quiet == ~ub /\ last.op = "-"

Usable(v) == Quiet /\ vec[v].alive /\ Live(v)

DefaultCtor(v) ==
    /\ Quiet /\ ~vec[v].alive /\ Fits(v, 0)
    /\ Commit([Start(0) EXCEPT !.vec[v] = EmptyVec], "Vector()", v, v, 0, NoArg, 0)

SizedCtor(v, size) ==
    /\ Quiet /\ ~vec[v].alive /\ Fits(v, size)
    /\ \E fault \in FaultsIn(VectorSized(Start(0), v, size)) :
          Commit(VectorSized(Start(fault), v, size), "Vector(size)", v, v, size, NoArg, fault)

CopyCtor(v, other) ==
    /\ ~vec[v].alive /\ Usable(other) /\ T.copyable /\ Fits(v, vec[other].size)
    /\ \E fault \in FaultsIn(VectorCopy(Start(0), v, other)) :
          Commit(VectorCopy(Start(fault), v, other), "Vector(const&)", v, other, 0, NoArg, fault)

MoveCtor(v, other) ==
    /\ ~vec[v].alive /\ Usable(other) /\ Fits(v, vec[other].cap)
    /\ Commit(VectorMove(Start(0), v, other), "Vector(&&)", v, other, 0, NoArg, 0)

Dtor(v) ==
    /\ Usable(v)
    /\ Commit(VectorDtor(Start(0), v), "~Vector", v, v, 0, NoArg, 0)

Swap(v, other) ==
    /\ Usable(v) /\ Usable(other)
    /\ Commit(SwapOp(Start(0), v, other), "Swap", v, other, 0, NoArg, 0)

CopyAssign(v, rhs) ==
    /\ Usable(v) /\ Usable(rhs) /\ T.copyable
    /\ (vec[rhs].size > vec[v].cap => Fits(v, vec[rhs].size))
    /\ \E fault \in FaultsIn(CopyAssignOp(Start(0), v, rhs)) :
          Commit(CopyAssignOp(Start(fault), v, rhs), "operator=(const&)", v, rhs, 0, NoArg, fault)

MoveAssign(v, rhs) ==
    /\ Usable(v) /\ Usable(rhs)
    /\ Commit(MoveAssignOp(Start(0), v, rhs), "operator=(&&)", v, rhs, 0, NoArg, 0)

Reserve(v, new_capacity) ==
    /\ Usable(v) /\ (new_capacity > vec[v].cap => Fits(v, new_capacity))
    /\ \E fault \in FaultsIn(ReserveOp(Start(0), v, new_capacity)) :
          Commit(ReserveOp(Start(fault), v, new_capacity), "Reserve", v, v, new_capacity, NoArg, fault)

Resize(v, new_size) ==
    /\ Usable(v) /\ (new_size > vec[v].cap => Fits(v, new_size))
    /\ \E fault \in FaultsIn(ResizeOp(Start(0), v, new_size)) :
          Commit(ResizeOp(Start(fault), v, new_size), "Resize", v, v, new_size, NoArg, fault)

PushBack(v, arg) ==
    /\ Usable(v) /\ T.copyable /\ HasRoom(v)
    /\ \E fault \in FaultsIn(PushBackOp(Start(0), v, "copy", arg)) :
          Commit(PushBackOp(Start(fault), v, "copy", arg), "PushBack(const&)", v, v, 0, arg, fault)

PushBackMove(v, arg) ==
    /\ Usable(v) /\ HasRoom(v)
    /\ \E fault \in FaultsIn(PushBackOp(Start(0), v, "move", arg)) :
          Commit(PushBackOp(Start(fault), v, "move", arg), "PushBack(&&)", v, v, 0, arg, fault)

PopBack(v) ==
    /\ Usable(v) /\ vec[v].size > 0
    /\ Commit(PopBackOp(Start(0), v), "PopBack", v, v, 0, NoArg, 0)

Emplace(v, offset, arg) ==
    /\ Usable(v) /\ HasRoom(v)
    /\ \E fault \in FaultsIn(EmplaceOp(Start(0), v, offset, "args", arg)) :
          Commit(EmplaceOp(Start(fault), v, offset, "args", arg), "Emplace", v, v, offset, arg, fault)

EmplaceBack(v, arg) ==
    /\ Usable(v) /\ HasRoom(v) /\ (arg.own => T.copyable)
    /\ LET kind == IF arg.own THEN "copy" ELSE "args"
       IN \E fault \in FaultsIn(EmplaceOp(Start(0), v, vec[v].size, kind, arg)) :
             Commit(EmplaceOp(Start(fault), v, vec[v].size, kind, arg),
                    "EmplaceBack", v, v, vec[v].size, arg, fault)

Insert(v, offset, arg) ==
    /\ Usable(v) /\ T.copyable /\ HasRoom(v)
    /\ \E fault \in FaultsIn(EmplaceOp(Start(0), v, offset, "copy", arg)) :
          Commit(EmplaceOp(Start(fault), v, offset, "copy", arg), "Insert(const&)", v, v, offset, arg, fault)

InsertMove(v, offset, arg) ==
    /\ Usable(v) /\ HasRoom(v)
    /\ \E fault \in FaultsIn(EmplaceOp(Start(0), v, offset, "move", arg)) :
          Commit(EmplaceOp(Start(fault), v, offset, "move", arg), "Insert(&&)", v, v, offset, arg, fault)

Erase(v, offset) ==
    /\ Usable(v)
    /\ \E fault \in FaultsIn(EraseOp(Start(0), v, offset)) :
          Commit(EraseOp(Start(fault), v, offset), "Erase", v, v, offset, NoArg, fault)

\* A member function called on a container whose [0, size) holds a
\* destroyed element reads or destroys a dead object.
UndefinedBehaviour(v) ==
    /\ Quiet /\ vec[v].alive /\ ~Live(v)
    /\ ub' = TRUE
    /\ last' = [NoCall EXCEPT !.op = "UB", !.v = v, !.o = v, !.res = "ub"]
    /\ UNCHANGED <<T, vec, run>>

\* The caller has seen the outcome of the last call: its record is
\* dropped.  The program's state is not touched.
Return ==
    /\ ~ub /\ last.op # "-"
    /\ last' = NoCall
    /\ UNCHANGED <<T, vec, ub, run>>

Init ==
    /\ T \in ElemTypes
    /\ vec = [v \in Vecs |-> NoVecAtRest]
    /\ last = NoCall
    /\ ub = FALSE
    /\ run = [v \in Vecs |-> NoRun]

Next ==
    \/ \E v \in Vecs : DefaultCtor(v)
    \/ \E v \in Vecs, size \in 0..MaxCap : SizedCtor(v, size)
    \/ \E v \in Vecs : \E other \in Vecs \ {v} : CopyCtor(v, other)
    \/ \E v \in Vecs : \E other \in Vecs \ {v} : MoveCtor(v, other)
    \/ \E v \in Vecs : Dtor(v)
    \/ \E v \in Vecs, other \in Vecs : Swap(v, other)
    \/ \E v \in Vecs, rhs \in Vecs : CopyAssign(v, rhs)
    \/ \E v \in Vecs, rhs \in Vecs : MoveAssign(v, rhs)
    \/ \E v \in Vecs, n \in 0..MaxCap : Reserve(v, n)
    \/ \E v \in Vecs, n \in 0..MaxCap : Resize(v, n)
    \/ \E v \in Vecs :
          \E arg \in ExtArgs \cup OwnArgs(v) : PushBack(v, arg)
    \/ \E v \in Vecs, arg \in ExtArgs : PushBackMove(v, arg)
    \/ \E v \in Vecs : PopBack(v)
    \/ \E v \in Vecs :
          \E offset \in 0..vec[v].size, arg \in ExtArgs : Emplace(v, offset, arg)
    \/ \E v \in Vecs :
          \E arg \in ExtArgs \cup OwnArgs(v) : EmplaceBack(v, arg)
    \/ \E v \in Vecs :
          \E offset \in 0..vec[v].size, arg \in ExtArgs \cup OwnArgs(v) :
              Insert(v, offset, arg)
    \/ \E v \in Vecs :
          \E offset \in 0..vec[v].size, arg \in ExtArgs : InsertMove(v, offset, arg)
    \/ \E v \in Vecs :
          \E offset \in 0..(vec[v].size - 1) : Erase(v, offset)
    \/ \E v \in Vecs : UndefinedBehaviour(v)
    \/ Return

Spec == Init /\ [][Next]_vars

\* ---- reading a step: the call made and what it left ----
\* the step is a call of a member function (not Return)
Called == last'.op \notin {"-", "UB"}

EmplaceFamily == {"Emplace", "EmplaceBack", "Insert(const&)", "Insert(&&)"}
PushBackFamily == {"PushBack(const&)", "PushBack(&&)"}

\* container w has the same size, capacity and element values after the step
SameContents(w) ==
    /\ vec'[w].alive = vec[w].alive
    /\ vec'[w].size = vec[w].size
    /\ vec'[w].cap = vec[w].cap
    /\ Elems(w)' = Elems(w)

\* ... and the same block, slot for slot
SameContainer(w) ==
    /\ vec'[w] = vec[w]
    /\ last'.buf[w] = vec[w].buf

\* no element was constructed, assigned or destroyed by the call
NoElemOps(st) ==
    /\ st.ctor = 0 /\ st.copy = 0 /\ st.move = 0
    /\ st.cassign = 0 /\ st.massign = 0 /\ st.dtor = 0

\* the slot an element operation threw at lies in the block the call allocated
AtNewBlock(at) == at[1] # Null /\ \A w \in Vecs : at[1] # OwnBlock(w)

\* ---- the claims ----

\* C1: between calls, whatever calls were made and however they ended,
\* every container has 0 <= size <= capacity, an object in every slot of
\* [0, size) and raw memory in every slot of [size, capacity).
C1_ValidAtBoundary ==
    \A v \in Vecs :
        vec[v].alive =>
            /\ 0 <= vec[v].size /\ vec[v].size <= vec[v].cap
            /\ Len(vec[v].data) = vec[v].cap
            /\ \A i \in 1..vec[v].cap :
                  (i <= vec[v].size) <=> (vec[v].data[i] # Raw)

\* C2: a PushBack (either overload) on a full container in which an
\* element construction throws leaves size, capacity and all element
\* values as they were, under either transfer rule.
C2_PushBackStrong ==
    [][\A v \in Vecs :
        (/\ Called /\ last'.v = v
         /\ last'.op \in PushBackFamily
         /\ vec[v].size = vec[v].cap
         /\ last'.res = "elem")
        => SameContents(v)]_vars

\* C3: in Emplace, Insert and EmplaceBack on a full container the new
\* element is constructed in the new block before any element is
\* transferred or destroyed, and when its construction throws the
\* container keeps its block, size, capacity and element values.
C3_NewElementFirst ==
    [][\A v \in Vecs :
        (/\ Called /\ last'.v = v
         /\ last'.op \in EmplaceFamily
         /\ vec[v].size = vec[v].cap
         /\ last'.res = "elem")
        => /\ (AtNewBlock(last'.at) /\ last'.at[2] = last'.n)
                 => NoElemOps(last'.st) /\ SameContainer(v)
           /\ (last'.op = "Emplace" /\ ~(AtNewBlock(last'.at) /\ last'.at[2] = last'.n))
                 => last'.st.ctor = 1]_vars

C3_Witness ==
    /\ last.op \in EmplaceFamily
    /\ last.res = "elem"
    /\ AtNewBlock(last.at) /\ last.at[2] = last.n
    /\ vec[last.v].size = vec[last.v].cap
    /\ vec[last.v].size > 0

\* C4: when operator new throws in a call, no element has been
\* constructed, moved, assigned or destroyed, and every container that
\* existed has the size, capacity, block and elements it had.
C4_AllocFailure ==
    [][(Called /\ last'.res = "alloc")
       => /\ NoElemOps(last'.st)
          /\ \A w \in Vecs : SameContainer(w)]_vars

C4_Witness ==
    /\ last.res = "alloc"
    /\ last.op \in {"operator=(const&)", "Reserve", "Resize", "Insert(&&)"} \cup PushBackFamily
    /\ vec[last.v].size > 0

\* C5 as stated: after a = std::move(b), with a and b distinct, b has
\* size 0, a holds b's former elements in order, and no element was
\* copy-constructed or copy-assigned.
C5_MoveAssignEmptiesSource ==
    [][\A v \in Vecs, o \in Vecs :
        (/\ Called /\ last'.op = "operator=(&&)"
         /\ last'.v = v /\ last'.o = o /\ v # o)
        => /\ vec'[o].size = 0
           /\ Elems(v)' = Elems(o)
           /\ last'.st.copy = 0 /\ last'.st.cassign = 0]_vars

\* C5 amended: after a = std::move(b), with a and b distinct, a owns b's
\* former block with b's former capacity, size and elements in order, b
\* owns a's former block, capacity, size and elements (so b is empty
\* exactly when a was), and no element was copy-constructed or
\* copy-assigned.
C5_MoveAssignSwaps ==
    [][\A v \in Vecs, o \in Vecs :
        (/\ Called /\ last'.op = "operator=(&&)"
         /\ last'.v = v /\ last'.o = o /\ v # o)
        => /\ Elems(v)' = Elems(o)
           /\ vec'[v].size = vec[o].size /\ vec'[v].cap = vec[o].cap
           /\ last'.buf[v] = vec[o].buf
           /\ Elems(o)' = Elems(v)
           /\ vec'[o].size = vec[v].size /\ vec'[o].cap = vec[v].cap
           /\ last'.buf[o] = vec[v].buf
           /\ (vec'[o].size = 0 <=> vec[v].size = 0)
           /\ last'.st.copy = 0 /\ last'.st.cassign = 0]_vars

C5_Witness ==
    /\ last.op = "operator=(&&)" /\ last.v # last.o
    /\ vec[last.v].size > 0 /\ vec[last.o].size > 0
    /\ Elems(last.v) # Elems(last.o)

\* C6: after Vector b(std::move(a)), b owns the block a owned, with a's
\* former capacity, size and elements, a has size 0, capacity 0 and no
\* block, and no element was constructed, assigned or destroyed.
C6_MoveConstruct ==
    [][\A v \in Vecs, o \in Vecs :
        (/\ Called /\ last'.op = "Vector(&&)" /\ last'.v = v /\ last'.o = o)
        => /\ vec'[v].alive
           /\ last'.buf[v] = vec[o].buf
           /\ vec'[v].cap = vec[o].cap
           /\ vec'[v].size = vec[o].size
           /\ vec'[v].data = vec[o].data
           /\ vec'[o].alive
           /\ vec'[o].size = 0 /\ vec'[o].cap = 0 /\ vec'[o].buf = Null
           /\ NoElemOps(last'.st)]_vars

C6_Witness ==
    /\ last.op = "Vector(&&)"
    /\ vec[last.v].size > 0
    /\ vec[last.v].cap > vec[last.v].size

\* the calls that may change their other container
ChangesOther == {"Vector(&&)", "Swap", "operator=(&&)"}

\* C7: a successful Vector b(a) gives b the size of a, a capacity equal
\* to the size of a, the elements of a, and a block that is not a's (no
\* block when a is empty), leaving a as it was; and a call on one
\* container that does not take the other as its non-const argument
\* leaves the other's size, capacity, block and elements as they were.
C7_CopyIndependence ==
    [][/\ \A v \in Vecs, o \in Vecs :
            (/\ Called /\ last'.op = "Vector(const&)" /\ last'.res = "ok"
             /\ last'.v = v /\ last'.o = o)
            => /\ vec'[v].alive
               /\ vec'[v].size = vec[o].size
               /\ vec'[v].cap = vec[o].size
               /\ Elems(v)' = Elems(o)
               /\ (vec[o].size = 0 => last'.buf[v] = Null)
               /\ (vec[o].size > 0 => AtNewBlock(<<last'.buf[v], 0>>))
               /\ SameContainer(o)
       /\ \A w \in Vecs :
            (/\ Called
             /\ w # last'.v
             /\ (w # last'.o \/ last'.op \notin ChangesOther))
            => SameContainer(w)]_vars

C7_Witness ==
    /\ last.op = "Vector(const&)" /\ last.res = "ok"
    /\ vec[last.o].size > 0
    /\ vec[last.o].cap > vec[last.o].size
    /\ \E i \in 1..vec[last.o].size : vec[last.o].data[i] # Default

\* C8: after a successful a = b, a has the size and the elements of b and
\* b is as it was; when b's size was at most a's capacity, a keeps its
\* capacity and its block, otherwise a's capacity is b's size; v = v
\* changes nothing.
C8_CopyAssign ==
    [][\A v \in Vecs, o \in Vecs :
        (/\ Called /\ last'.op = "operator=(const&)" /\ last'.res = "ok"
         /\ last'.v = v /\ last'.o = o)
        => IF v = o
           THEN SameContainer(v) /\ NoElemOps(last'.st)
           ELSE /\ vec'[v].size = vec[o].size
                /\ Elems(v)' = Elems(o)
                /\ SameContainer(o)
                /\ IF vec[o].size <= vec[v].cap
                   THEN vec'[v].cap = vec[v].cap /\ last'.buf[v] = vec[v].buf
                   ELSE vec'[v].cap = vec[o].size]_vars

C8_Witness ==
    /\ last.op = "operator=(const&)" /\ last.res = "ok" /\ last.v # last.o
    /\ last.st.cassign > 0 /\ last.st.copy > 0
    /\ last.buf[last.v] = OwnBlock(last.v)

\* C9: when a = b with b's size above a's capacity fails, in operator new
\* or in a copy construction, a has the block, size, capacity and elements
\* it had, every element constructed in the temporary copy has been
\* destroyed and the temporary's block has been released.
C9_CopyAssignStrong ==
    [][\A v \in Vecs, o \in Vecs :
        (/\ Called /\ last'.op = "operator=(const&)" /\ last'.res # "ok"
         /\ last'.v = v /\ last'.o = o /\ v # o
         /\ vec[o].size > vec[v].cap)
        => /\ SameContainer(v)
           /\ SameContainer(o)
           /\ last'.st.dtor = last'.st.copy
           /\ last'.st.leak = 0
           /\ last'.st.dealloc = last'.st.alloc
           /\ (last'.res = "elem" => last'.st.alloc = 1)]_vars

C9_Witness ==
    /\ last.op = "operator=(const&)" /\ last.res = "elem"
    /\ last.st.alloc = 1
    /\ last.st.copy > 0
    /\ vec[last.v].size > 0

\* C10: Reserve(n) leaves the size as it was and never lowers the
\* capacity; with n <= Capacity() it does nothing: same capacity, same
\* block, no element constructed, moved or destroyed, nothing allocated;
\* a Reserve(n) that returns leaves the element values as they were and,
\* with n > Capacity(), makes the capacity n.
C10_Reserve ==
    [][\A v \in Vecs :
        (Called /\ last'.op = "Reserve" /\ last'.v = v)
        => /\ vec'[v].size = vec[v].size
           /\ vec'[v].cap >= vec[v].cap
           /\ (last'.n <= vec[v].cap
                 => /\ last'.res = "ok"
                    /\ SameContainer(v)
                    /\ NoElemOps(last'.st)
                    /\ last'.st.alloc = 0 /\ last'.st.dealloc = 0)
           /\ (last'.res = "ok" => Elems(v)' = Elems(v))
           /\ (last'.res = "ok" /\ last'.n > vec[v].cap
                 => vec'[v].cap = last'.n)]_vars

C10_Witness ==
    /\ last.op = "Reserve" /\ last.res = "ok"
    /\ last.n = vec[last.v].cap
    /\ last.st.alloc = 0
    /\ vec[last.v].size > 0
    /\ vec[last.v].size < vec[last.v].cap

\* C11: a Resize(n) that returns, on a container of size s and capacity
\* c, leaves size n and the values of the elements [0, min(s, n)); with
\* n < s it destroys exactly the slots [n, s) and keeps the capacity and
\* the block; with n > s the slots [s, n) hold T() and the capacity is
\* max(c, n); with n = s nothing changes.
C11_Resize ==
    [][\A v \in Vecs :
        (Called /\ last'.op = "Resize" /\ last'.res = "ok" /\ last'.v = v)
        => LET n == last'.n
               s == vec[v].size
               c == vec[v].cap
           IN /\ vec'[v].size = n
              /\ \A i \in 1..Min(s, n) : vec'[v].data[i] = vec[v].data[i]
              /\ (n < s => /\ vec'[v].cap = c
                           /\ last'.buf[v] = vec[v].buf
                           /\ \A i \in (n + 1)..s : vec'[v].data[i] = Raw
                           /\ last'.st = [NoStats EXCEPT !.dtor = s - n])
              /\ (n > s => /\ \A i \in (s + 1)..n : vec'[v].data[i] = Default
                           /\ vec'[v].cap = (IF c > n THEN c ELSE n)
                           /\ last'.st.ctor = n - s)
              /\ (n = s => SameContainer(v) /\ last'.st = NoStats)]_vars

C11_Witness ==
    /\ last.op = "Resize" /\ last.res = "ok"
    /\ last.st.alloc = 1
    /\ last.n = vec[last.v].size /\ last.n = 3
    /\ vec[last.v].data[1] \in 1..MaxVal
    /\ vec[last.v].data[3] = Default

\* the least k with 2^k >= n, for n >= 1
CeilLog2(n) == CHOOSE k \in 0..n : 2^k >= n /\ \A j \in 0..(k - 1) : 2^j < n

\* C12: PushBack, EmplaceBack, Emplace and Insert allocate a block only
\* when size = capacity, and then the new capacity is 1 for size 0 and
\* twice the size otherwise; so after N >= 1 successive PushBack calls on
\* a default-constructed container the size is N, the capacity is the
\* least power of two >= N and ceil(log2 N) + 1 blocks have been allocated.
C12_Growth ==
    /\ [][\A v \in Vecs :
            (/\ Called /\ last'.v = v
             /\ last'.op \in EmplaceFamily \cup PushBackFamily)
            => LET s == vec[v].size
                   c == vec[v].cap
               IN /\ (last'.st.alloc > 0 \/ last'.res = "alloc") => s = c
                  /\ (last'.res = "ok" /\ s = c)
                        => /\ last'.st.alloc = 1
                           /\ vec'[v].cap = (IF s = 0 THEN 1 ELSE 2 * s)
                  /\ (last'.res = "ok" /\ s < c)
                        => /\ vec'[v].cap = c
                           /\ last'.buf[v] = vec[v].buf]_vars
    /\ [](\A v \in Vecs :
            (run[v].on /\ run[v].pushes >= 1)
            => /\ vec[v].size = run[v].pushes
               /\ vec[v].cap = 2^CeilLog2(run[v].pushes)
               /\ run[v].reallocs = CeilLog2(run[v].pushes) + 1)

C12_Witness ==
    \E v \in Vecs :
        /\ run[v].on /\ run[v].pushes = 3
        /\ vec[v].cap = 4 /\ run[v].reallocs = 3
        /\ last.op \in PushBackFamily /\ last.st.alloc = 1

\* C13: an Insert or Emplace at offset p of value x that returns, on a
\* container holding e0..e(k-1), leaves e0..e(p-1), x, e(p)..e(k-1) with
\* size k + 1, and returns position p of the block the container then
\* owns, which holds x; with room at the end, with room in the middle
\* and with a full block.
C13_InsertOrder ==
    [][\A v \in Vecs :
        (/\ Called /\ last'.v = v /\ last'.res = "ok"
         /\ last'.op \in EmplaceFamily)
        => LET p == last'.n
               k == vec[v].size
           IN /\ vec'[v].size = k + 1
              /\ \A i \in 1..p : vec'[v].data[i] = vec[v].data[i]
              /\ vec'[v].data[p + 1] = last'.x
              /\ \A i \in (p + 1)..k : vec'[v].data[i + 1] = vec[v].data[i]
              /\ last'.ret = <<last'.buf[v], p>>
              /\ last'.buf[v] # Null]_vars

C13_Witness ==
    /\ last.op \in {"Emplace", "Insert(const&)", "Insert(&&)"} /\ last.res = "ok"
    /\ last.st.alloc = 0
    /\ last.n = 0 /\ vec[last.v].size = 3
    /\ vec[last.v].data[1] = last.x
    /\ vec[last.v].data[2] # vec[last.v].data[3]
    /\ vec[last.v].data[2] # last.x
    /\ last.ret = <<OwnBlock(last.v), 0>>

\* C14: an Erase at offset p that returns, on a container holding
\* e0..e(k-1), leaves e0..e(p-1), e(p+1)..e(k-1) with size k - 1, the
\* same capacity and the same block; it destroys one slot, the former
\* last one, and returns position p, which is end() when p was the last.
C14_EraseOrder ==
    [][\A v \in Vecs :
        (Called /\ last'.v = v /\ last'.res = "ok" /\ last'.op = "Erase")
        => LET p == last'.n
               k == vec[v].size
           IN /\ vec'[v].size = k - 1
              /\ \A i \in 1..p : vec'[v].data[i] = vec[v].data[i]
              /\ \A i \in (p + 1)..(k - 1) : vec'[v].data[i] = vec[v].data[i + 1]
              /\ vec'[v].cap = vec[v].cap
              /\ last'.buf[v] = vec[v].buf
              /\ last'.st.dtor = 1 /\ last'.st.leak = 0
              /\ vec'[v].data[k] = Raw
              /\ \A i \in (k + 1)..vec[v].cap : vec'[v].data[i] = vec[v].data[i]
              /\ last'.ret = <<vec[v].buf, p>>
              /\ (p = k - 1 => last'.ret[2] = vec'[v].size)]_vars

C14_Witness ==
    /\ last.op = "Erase" /\ last.res = "ok"
    /\ last.n = 0 /\ vec[last.v].size = 2
    /\ last.st.massign = 2
    /\ vec[last.v].data[1] # vec[last.v].data[2]
    /\ vec[last.v].data[1] \in Vals /\ vec[last.v].data[2] \in Vals

\* C15: a Vector(n) that returns has size n, capacity n and n elements
\* equal to T(); for n = 0 it has capacity 0 and no block, the state
\* Vector() gives.
C15_SizedCtor ==
    [][\A v \in Vecs :
        (Called /\ last'.v = v /\ last'.res = "ok" /\ last'.op = "Vector(size)")
        => LET n == last'.n
           IN /\ vec'[v].alive
              /\ vec'[v].size = n
              /\ vec'[v].cap = n
              /\ vec'[v].data = [i \in 1..n |-> Default]
              /\ last'.st.ctor = n
              /\ (n > 0 => AtNewBlock(<<last'.buf[v], 0>>))
              /\ (n = 0 => /\ last'.buf[v] = Null
                           /\ vec'[v] = [NoVecAtRest EXCEPT !.alive = TRUE]
                           /\ last'.st = NoStats)]_vars

C15_Witness ==
    /\ last.op = "Vector(size)" /\ last.res = "ok"
    /\ last.n = 3
    /\ vec[last.v].size = 3 /\ vec[last.v].cap = 3
    /\ last.st.ctor = 3 /\ last.st.alloc = 1

\* the objects the call constructed, by whatever constructor
Constructed(st) == st.ctor + st.copy + st.move

\* C16: Emplace and Insert before end() with size < capacity construct
\* the temporary, then move-construct the last element into slot size,
\* then move-assign the elements of [pos, size - 1) one slot right from
\* the last to the first, then move-assign the temporary into slot pos,
\* then destroy the temporary: what has been done when a step throws is
\* what comes before it; when the construction of the temporary throws,
\* no slot has been written and block, size, capacity and elements are
\* as they were.
C16_MiddleOrder ==
    [][\A v \in Vecs :
        (/\ Called /\ last'.v = v /\ last'.op \in EmplaceFamily
         /\ vec[v].size < vec[v].cap /\ last'.n < vec[v].size)
        => LET p  == last'.n
               s  == vec[v].size
               at == last'.at
               st == last'.st
           IN /\ last'.res # "alloc" /\ st.alloc = 0
              /\ (last'.res = "elem" /\ at[1] = Null)
                    => NoElemOps(st) /\ SameContainer(v)
              /\ (last'.res = "elem" /\ at[1] # Null)
                    => /\ at[1] = vec[v].buf /\ at[2] \in p..s
                       /\ st.dtor = 0
                       /\ (at[2] = s => Constructed(st) = 1 /\ st.massign = 0)
                       /\ (at[2] < s => /\ Constructed(st) = 2
                                        /\ st.massign = (s - 1) - at[2])
              /\ last'.res = "ok"
                    => /\ Constructed(st) = 2
                       /\ st.massign = s - p
                       /\ st.dtor = 1]_vars

C16_Witness ==
    /\ last.op \in EmplaceFamily /\ last.res = "elem"
    /\ last.at[1] = Null
    /\ last.n = 0 /\ vec[last.v].size = 2 /\ vec[last.v].cap > 2
    /\ ~T.nothrowMove

\* C17: when Resize(n) with n > capacity has moved the elements to a new
\* block and the value construction of a new trailing element throws,
\* the container has the size, the capacity and the element values it had.
C17_ResizeStrong ==
    [][\A v \in Vecs :
        (/\ Called /\ last'.v = v /\ last'.op = "Resize"
         /\ last'.n > vec[v].cap
         /\ last'.res = "elem"
         /\ last'.st.alloc = 1 /\ last'.at[2] >= vec[v].size)
        => SameContents(v)]_vars

\* the copy and the move constructions a call makes for its new element
NewCopy(op) == IF op \in {"PushBack(const&)", "Insert(const&)"} THEN 1 ELSE 0
NewMove(op) == IF op \in {"PushBack(&&)", "Insert(&&)"} THEN 1 ELSE 0

\* C18: a Reserve, PushBack, Emplace or Insert that moves s elements to a
\* new block and returns has move-constructed them when T's move
\* constructor cannot throw or T is not copy-constructible, and
\* copy-constructed them otherwise; and when a copy throws in Reserve
\* under the copy rule, every slot of the old block, the size, the
\* capacity and the block of the container are as they were, and the
\* copies made have been destroyed.
C18_TransferRule ==
    [][\A v \in Vecs :
        (Called /\ last'.v = v)
        => LET s  == vec[v].size
               op == last'.op
               st == last'.st
               byMove == T.nothrowMove \/ ~T.copyable
           IN /\ (/\ op \in {"Reserve", "Emplace", "Insert(const&)", "Insert(&&)"}
                               \cup PushBackFamily
                  /\ last'.res = "ok" /\ st.alloc = 1)
                    => IF byMove
                       THEN st.move = s + NewMove(op) /\ st.copy = NewCopy(op)
                       ELSE st.copy = s + NewCopy(op) /\ st.move = NewMove(op)
              /\ (op = "EmplaceBack" /\ last'.res = "ok" /\ st.alloc = 1)
                    => IF byMove THEN st.move = s ELSE st.move = 0 /\ st.copy >= s
              /\ (op = "Reserve" /\ last'.res = "elem" /\ ~byMove)
                    => /\ SameContainer(v)
                       /\ st.move = 0
                       /\ st.dtor = st.copy /\ st.leak = 0
                       /\ st.dealloc = 1]_vars

C18_Witness ==
    /\ last.op = "Reserve" /\ last.res = "elem"
    /\ T.copyable /\ ~T.nothrowMove
    /\ last.st.copy = 1 /\ last.at[2] = 1
    /\ vec[last.v].size = 2
    /\ vec[last.v].data[1] # vec[last.v].data[2]

\* C19: when a construction, PushBack, Emplace, Insert, Reserve or Resize
\* that allocated a block fails, on containers that were valid, every
\* element it constructed has been destroyed once and no block has been
\* released with an object in one of its slots.
C19_NoLeak ==
    [][(/\ Called /\ C1_ValidAtBoundary
        /\ last'.op \in {"Vector(size)", "Vector(const&)", "Reserve", "Resize"}
                           \cup PushBackFamily \cup EmplaceFamily
        /\ last'.res = "elem" /\ last'.st.alloc = 1)
       => /\ last'.st.leak = 0
          /\ last'.st.dtor = Constructed(last'.st)]_vars

\* C20: a PushBack(v[i]), EmplaceBack(v[i]) or Insert(pos, v[i]) that
\* returns has inserted the value v[i] had before the call and left the
\* values of the elements that were there, with or without reallocation
\* and under either transfer rule; and from any state PushBack(x) and
\* EmplaceBack(x) leave the same container.
C20_AliasArg ==
    /\ [][\A v \in Vecs :
            (/\ Called /\ last'.v = v /\ last'.res = "ok" /\ last'.own
             /\ last'.op \in {"PushBack(const&)", "EmplaceBack", "Insert(const&)"})
            => LET k == vec[v].size
                   p == IF last'.op = "Insert(const&)" THEN last'.n ELSE k
               IN /\ vec'[v].size = k + 1
                  /\ vec'[v].data[p + 1] = last'.x
                  /\ \A i \in 1..p : vec'[v].data[i] = vec[v].data[i]
                  /\ \A i \in (p + 1)..k : vec'[v].data[i + 1] = vec[v].data[i]]_vars
    /\ [](\A v \in Vecs :
            (Usable(v) /\ HasRoom(v) /\ T.copyable)
            => \A arg \in ExtArgs \cup OwnArgs(v) :
                  LET pb == PushBackOp(Start(0), v, "copy", arg)
                      eb == EmplaceOp(Start(0), v, vec[v].size, "copy", arg)
                  IN /\ pb.vec[v].size = eb.vec[v].size
                     /\ pb.vec[v].cap = eb.vec[v].cap
                     /\ pb.heap[pb.vec[v].buf] = eb.heap[eb.vec[v].buf])
====
